---- MODULE Spec2Model ----
(***************************************************************************)
(* A model of ghost_static_generator.py (ImprovedGhostStaticGenerator):    *)
(* the recursive same-domain crawler (scrape_site / scrape_url /           *)
(* process_html / save_file), the image transcoding stage (convert_images) *)
(* and the HTML rewriter (update_html_for_image_formats).                  *)
(*                                                                         *)
(* Three specifications share the variables:                               *)
(*   Spec          the crawl                                               *)
(*   SpecTranscode convert_images, run twice on one mirror                 *)
(*   SpecRewrite   update_html_for_image_formats over one mirror           *)
(***************************************************************************)
EXTENDS Integers, Sequences, FiniteSets, TLC

VARIABLES
    \* ---- crawl ----
    pc,            \* position of run(): "idle", "crawl", "done", "aborted"
    cur,           \* <<u>>: scrape_url(u) has just been called; <<>>: no call pending
    stack,         \* process_html activations, innermost last: [url, left]
    rootIdx,       \* next index into root_files in scrape_root_files
    visited_urls,  \* self.visited_urls
    file_urls,     \* self.file_urls
    gets,          \* number of requests.get calls issued per URL
    files,         \* regular files under public_dir: path components -> content
    dirs,          \* directories under public_dir (sets of path components)
    failed,        \* URLs whose requests.get / raise_for_status raised
    pages,         \* URLs answered 2xx with a text/html content type
    parsed,        \* pages whose process_html reached its link loops
    linked,        \* link targets carried by the body of some 2xx HTML page
    saved,         \* <<url, path>>: save_file(url, ...) wrote the file at path
    site,          \* what the references of the site's pages resolve to
    \* ---- transcode ----
    tpc,           \* position of convert_images: "idle", "run", "joined", "raised"
    runNo,         \* which invocation of convert_images is executing (1, 2)
    force_reconvert, \* self.force_reconvert
    tools,         \* the converter executables that are installed
    image_paths,   \* the planned images of the current invocation
    job,           \* per planned image, its process_image future: 0 queued,
                   \* 1..3 the next format, 4 returned, 5 raised
    convlog,       \* <<run, image, format, outcome>> of every convert_to_* call
    endOfRun1,     \* the mirror's files when the first invocation ended
    \* ---- rewrite ----
    rpc,           \* position of update_html_for_image_formats: "idle", "walk", "done"
    html,          \* the .html files of the mirror: path -> document
    fetched,       \* the same files as the crawler saved them
    todo,          \* the .html files os.walk has yet to yield, in its order
    written,       \* the .html files the rewriter has opened for writing
    emitted,       \* path -> per <img>, the <source> elements created for it
    rewriteNo,     \* which invocation of update_html_for_image_formats (0: none yet)
    afterFirst,    \* the .html files as the first invocation left them
    upc            \* position of replace_urls_in_files: "idle", "done"

crawlVars == <<pc, cur, stack, rootIdx, visited_urls, file_urls, gets, dirs,
               failed, pages, parsed, linked, saved, site>>
transVars == <<tpc, runNo, force_reconvert, tools, image_paths, job, convlog, endOfRun1>>
rewriteVars == <<rpc, html, fetched, todo, written, emitted, rewriteNo, afterFirst, upc>>
vars == <<crawlVars, files, transVars, rewriteVars>>

(***************************************************************************)
(* Bounds of the model.                                                    *)
(***************************************************************************)
MaxLinks == 2     \* link-bearing references per HTML page
MaxHtml == 2      \* responses of a crawl that are HTML pages
MaxFail == 1      \* fetches of a crawl that raise
MaxImages == 2    \* raster images in the mirror handed to convert_images
MaxWorkers == 2   \* os.cpu_count(), the size of the thread pool
MaxConvFail == 1  \* converter runs that exit with an error
MaxImgs == 2      \* <img> elements of an HTML page

(***************************************************************************)
(* URLs and paths.  A path is a sequence of tokens; a token is a name      *)
(* (stem and final extension) or the separator "/".                        *)
(***************************************************************************)
Nm(stem, ext) == [stem |-> stem, ext |-> ext]
Slash == Nm("/", "")
IndexHtml == Nm("index", "html")
Url(scheme, netloc, path) == [scheme |-> scheme, netloc |-> netloc, path |-> path]

source_url == Url("http", "src", <<>>)
target_url == Url("https", "tgt", <<>>)

root_files ==
    << Nm("favicon", "ico"), Nm("robots", "txt"), Nm("sitemap", "xml"),
       Nm("sitemap-authors", "xml"), Nm("sitemap-pages", "xml"),
       Nm("sitemap-posts", "xml"), Nm("sitemap-tags", "xml") >>

\* urljoin(self.source_url, file) for a bare file name
urljoin(base, file) == Url(base.scheme, base.netloc, <<Slash, file>>)

RootFileUrls == { urljoin(source_url, root_files[i]) : i \in 1..Len(root_files) }

\* What an href/src/data-src/url(...) of a page of the site may resolve to.
LinkTargets ==
    { Url("http", "src", <<Slash>>),
      Url("http", "src", <<Slash, Nm("a", "")>>),
      Url("http", "src", <<Slash, Nm("a", ""), Slash>>),
      Url("https", "src", <<Slash, Nm("a", "")>>),
      Url("http", "ext", <<Slash, Nm("a", "")>>) }

\* A site whose URLs exercise the path rules of save_file.
PathTargets ==
    { Url("http", "src", <<Slash, IndexHtml>>),
      Url("http", "src", <<Slash, Nm("a", "")>>),
      Url("http", "src", <<Slash, Nm("a", ""), Slash>>),
      Url("http", "ext", <<Slash, Nm("a", "")>>) }

Urls == {source_url} \cup RootFileUrls \cup LinkTargets \cup PathTargets

\* urlparse(url).netloc == urlparse(self.source_url).netloc
is_same_domainAny(url) == TRUE
is_same_domain(url) == url.netloc = source_url.netloc

\* the origin of the data model: scheme, host and port
Origin(url) == <<url.scheme, url.netloc>>

\* `if url in self.visited_urls: return`
AlreadyVisited(url) == url \in visited_urls

\* Exceptions of one scrape_url body and the two except clauses that end it.
RequestExceptions == {"ConnectionError", "Timeout", "HTTPError"}
ScrapeUrlCatchesHttpOnly(exc) == exc = "HTTPError"
ScrapeUrlCatches(exc) == exc \in RequestExceptions \cup {"OSError"}

(***************************************************************************)
(* save_file                                                               *)
(***************************************************************************)
RECURSIVE LStrip(_)
LStrip(p) == IF p # <<>> /\ Head(p) = Slash THEN LStrip(Tail(p)) ELSE p

\* relative_path of save_file
RelativePathVerbatim(url) == LStrip(url.path)
RelativePath(url) ==
    LET rel == LStrip(url.path) IN
    IF rel = <<>> THEN <<IndexHtml>>
    ELSE IF rel[Len(rel)] = Slash THEN Append(rel, IndexHtml)
    ELSE rel

\* os.path.join(self.public_dir, relative_path), as components below public_dir
Components(p) == SelectSeq(p, LAMBDA t : t # Slash)
FilePath(url) == Components(RelativePath(url))

\* os.path.dirname(file_path) and the directories above it, below public_dir
DirsOf(fp) == { SubSeq(fp, 1, k) : k \in 1..(Len(fp) - 1) }

\* os.makedirs(..., exist_ok=True) raises when a component is a regular file
MakedirsOk(fp, fs) == \A d \in DirsOf(fp) : d \notin DOMAIN fs
\* open(file_path, mode) raises when the path is a directory
OpenOk(fp, ds) == fp \notin ds
SaveOk(url, fs, ds) == MakedirsOk(FilePath(url), fs) /\ OpenOk(FilePath(url), ds \cup DirsOf(FilePath(url)))

\* the bytes of the response to a GET of url
Body(url) == [from |-> url]

DirsAfterSave(url, fs, ds) ==
    IF MakedirsOk(FilePath(url), fs) THEN ds \cup DirsOf(FilePath(url)) ELSE ds
FilesAfterSave(url, fs, ds) ==
    IF SaveOk(url, fs, ds) THEN (FilePath(url) :> Body(url)) @@ fs ELSE fs
SavedAfterSave(url, fs, ds, sv) ==
    IF SaveOk(url, fs, ds) THEN sv \cup {<<url, FilePath(url)>>} ELSE sv

(***************************************************************************)
(* The crawl: scrape_site, scrape_root_files, scrape_url, process_html.    *)
(***************************************************************************)
TransIdle ==
    /\ tpc = "idle" /\ runNo = 0 /\ force_reconvert = FALSE
    /\ tools = {} /\ image_paths = {} /\ job = <<>> /\ convlog = {} /\ endOfRun1 = <<>>
RewriteIdle ==
    /\ rpc = "idle" /\ html = <<>> /\ fetched = <<>> /\ todo = <<>> /\ written = {}
    /\ emitted = <<>> /\ rewriteNo = 0 /\ afterFirst = <<>> /\ upc = "idle"

\* __init__
InitSite(S) ==
    /\ site = S
    /\ pc = "idle" /\ cur = <<>> /\ stack = <<>> /\ rootIdx = 1
    /\ visited_urls = {} /\ file_urls = {}
    /\ gets = [u \in Urls |-> 0]
    /\ files = <<>> /\ dirs = {}
    /\ failed = {} /\ pages = {} /\ parsed = {} /\ linked = {} /\ saved = {}
    /\ TransIdle /\ RewriteIdle
Init == InitSite(LinkTargets)

Top == stack[Len(stack)]

\* The media types the server may declare: an extension-less or directory URL
\* is a page or a download; a .txt or .xml file is not one of the types
\* scrape_url names ('text/plain', 'text/xml'); a page is never one of those.
LastName(u) == IF u.path = <<>> THEN Slash ELSE u.path[Len(u.path)]
IsPage(u) == LastName(u).ext = ""
IsPlain(u) == LastName(u).ext \in {"txt", "xml"}

\* scrape_site: self.scrape_url(self.source_url)
ScrapeSite ==
    /\ pc = "idle"
    /\ pc' = "crawl" /\ cur' = <<source_url>>
    /\ UNCHANGED <<site, saved, stack, rootIdx, visited_urls, file_urls, gets, files, dirs,
                   failed, pages, parsed, linked, transVars, rewriteVars>>

\* scrape_url: the URL was visited before; return at once
SkipVisited ==
    /\ pc = "crawl" /\ cur # <<>> /\ AlreadyVisited(cur[1])
    /\ cur' = <<>>
    /\ UNCHANGED <<site, saved, pc, stack, rootIdx, visited_urls, file_urls, gets, files, dirs,
                   failed, pages, parsed, linked, transVars, rewriteVars>>

\* the part every first call of scrape_url(u) shares: mark visited, issue the GET
Get(u) ==
    /\ pc = "crawl" /\ cur = <<u>> /\ ~AlreadyVisited(u)
    /\ visited_urls' = visited_urls \cup {u}
    /\ gets' = [gets EXCEPT ![u] = @ + 1]

\* scrape_url: requests.get or raise_for_status raises
FetchRaises ==
    \E u \in Urls, exc \in RequestExceptions :
        /\ Get(u)
        /\ Cardinality(failed) < MaxFail
        /\ failed' = failed \cup {u}
        /\ IF ScrapeUrlCatches(exc)
              THEN /\ cur' = <<>>
                   /\ UNCHANGED <<pc, stack>>
              ELSE /\ pc' = "aborted" /\ cur' = <<>> /\ stack' = <<>>
        /\ UNCHANGED <<site, saved, rootIdx, file_urls, files, dirs, pages, parsed, linked,
                       transVars, rewriteVars>>

\* scrape_url, 'text/html': process_html saves the page and starts its loops
FetchHtml ==
    \E u \in Urls, n \in 0..MaxLinks :
        /\ Get(u)
        /\ IsPage(u)
        /\ Cardinality(pages) < MaxHtml
        /\ SaveOk(u, files, dirs)
        /\ pages' = pages \cup {u}
        /\ files' = FilesAfterSave(u, files, dirs)
        /\ dirs' = DirsAfterSave(u, files, dirs)
        /\ saved' = SavedAfterSave(u, files, dirs, saved)
        /\ parsed' = parsed \cup {u}
        /\ stack' = Append(stack, [url |-> u, left |-> n])
        /\ cur' = <<>>
        /\ UNCHANGED <<site, pc, rootIdx, file_urls, failed, linked, transVars, rewriteVars>>

\* scrape_url, 'text/html': save_file raises in process_html (a path component
\* is a regular file, or the path is a directory); the page is not parsed
FetchHtmlSaveRaises ==
    \E u \in Urls, body \in SUBSET site :
        /\ Get(u)
        /\ IsPage(u)
        /\ Cardinality(pages) < MaxHtml
        /\ Cardinality(body) <= MaxLinks
        /\ ~SaveOk(u, files, dirs)
        /\ pages' = pages \cup {u}
        /\ linked' = linked \cup body
        /\ dirs' = DirsAfterSave(u, files, dirs)
        /\ IF ScrapeUrlCatches("OSError")
              THEN /\ cur' = <<>>
                   /\ UNCHANGED <<pc, stack>>
              ELSE /\ pc' = "aborted" /\ cur' = <<>> /\ stack' = <<>>
        /\ UNCHANGED <<site, saved, rootIdx, file_urls, files, failed, parsed, transVars, rewriteVars>>

\* what save_file does to pc/stack/files/dirs when called from scrape_url itself
SaveBinary(u) ==
    /\ files' = FilesAfterSave(u, files, dirs)
    /\ dirs' = DirsAfterSave(u, files, dirs)
    /\ saved' = SavedAfterSave(u, files, dirs, saved)
    /\ cur' = <<>>
    /\ IF SaveOk(u, files, dirs) \/ ScrapeUrlCatches("OSError")
          THEN UNCHANGED <<pc, stack>>
          ELSE pc' = "aborted" /\ stack' = <<>>

\* scrape_url, 'text/css' / 'javascript' / 'image' / 'application'
FetchFile ==
    \E u \in Urls :
        /\ Get(u)
        /\ ~IsPlain(u)
        /\ file_urls' = file_urls \cup {u}
        /\ SaveBinary(u)
        /\ UNCHANGED <<site, rootIdx, failed, pages, parsed, linked, transVars, rewriteVars>>

\* scrape_url, any other content type: logged and saved all the same
FetchOther ==
    \E u \in Urls :
        /\ Get(u)
        /\ ~IsPage(u)
        /\ SaveBinary(u)
        /\ UNCHANGED <<site, rootIdx, file_urls, failed, pages, parsed, linked,
                       transVars, rewriteVars>>

\* process_html: the next reference of the page resolves into the source's domain
FollowLink ==
    \E t \in site :
        /\ pc = "crawl" /\ cur = <<>> /\ stack # <<>> /\ Top.left > 0
        /\ is_same_domain(t)
        /\ cur' = <<t>>
        /\ stack' = [stack EXCEPT ![Len(stack)].left = @ - 1]
        /\ linked' = linked \cup {t}
        /\ UNCHANGED <<site, saved, pc, rootIdx, visited_urls, file_urls, gets, files, dirs,
                       failed, pages, parsed, transVars, rewriteVars>>

\* process_html: the next reference resolves elsewhere and is passed over
SkipForeignLink ==
    \E t \in site :
        /\ pc = "crawl" /\ cur = <<>> /\ stack # <<>> /\ Top.left > 0
        /\ ~is_same_domain(t)
        /\ stack' = [stack EXCEPT ![Len(stack)].left = @ - 1]
        /\ linked' = linked \cup {t}
        /\ UNCHANGED <<site, saved, pc, cur, rootIdx, visited_urls, file_urls, gets, files, dirs,
                       failed, pages, parsed, transVars, rewriteVars>>

\* process_html and its scrape_url return
ReturnFromPage ==
    /\ pc = "crawl" /\ cur = <<>> /\ stack # <<>> /\ Top.left = 0
    /\ stack' = SubSeq(stack, 1, Len(stack) - 1)
    /\ UNCHANGED <<site, saved, pc, cur, rootIdx, visited_urls, file_urls, gets, files, dirs,
                   failed, pages, parsed, linked, transVars, rewriteVars>>

\* scrape_root_files: the loop over root_files
NextRootFile ==
    /\ pc = "crawl" /\ cur = <<>> /\ stack = <<>> /\ rootIdx <= Len(root_files)
    /\ cur' = <<urljoin(source_url, root_files[rootIdx])>>
    /\ rootIdx' = rootIdx + 1
    /\ UNCHANGED <<site, saved, pc, stack, visited_urls, file_urls, gets, files, dirs,
                   failed, pages, parsed, linked, transVars, rewriteVars>>

\* scrape_site returns
CrawlDone ==
    /\ pc = "crawl" /\ cur = <<>> /\ stack = <<>> /\ rootIdx > Len(root_files)
    /\ pc' = "done"
    /\ UNCHANGED <<site, saved, cur, stack, rootIdx, visited_urls, file_urls, gets, files, dirs,
                   failed, pages, parsed, linked, transVars, rewriteVars>>

Next ==
    \/ ScrapeSite \/ SkipVisited \/ FetchRaises \/ FetchHtml \/ FetchHtmlSaveRaises
    \/ FetchFile \/ FetchOther \/ FollowLink \/ SkipForeignLink \/ ReturnFromPage
    \/ NextRootFile \/ CrawlDone

Spec == Init /\ [][Next]_vars

\* The crawl is one thread that never waits for anything but a response, and
\* requests.get(url, timeout=30) returns or raises: a step that can be taken
\* is taken.
SpecFair == Init /\ [][Next]_vars /\ WF_vars(Next)

\* the crawl of the site of PathTargets
InitPaths == InitSite(PathTargets)
SpecPaths == InitPaths /\ [][Next]_vars

(***************************************************************************)
(* Claims about the crawl (checked under Spec).                            *)
(***************************************************************************)
RECURSIVE Sum(_, _)
Sum(f, S) == IF S = {} THEN 0
             ELSE LET x == CHOOSE y \in S : TRUE IN f[x] + Sum(f, S \ {x})
TotalGets == Sum(gets, Urls)

\* The URLs of the site reachable from the seeds: the source root, the
\* well-known root files, and every reference into the source's domain that
\* the body of a successfully fetched HTML page carries.
Seeds == {source_url} \cup RootFileUrls
Reachable == Seeds \cup { t \in linked : t.netloc = source_url.netloc }

\* C1 (as stated): no URL is requested twice, and when the crawl is over the
\* number of GETs equals the number of reachable URLs of the site.
C1_NoRevisitExactlyN ==
    /\ \A u \in Urls : gets[u] <= 1
    /\ pc = "done" => TotalGets = Cardinality(Reachable)

C3_State ==
    /\ pc # "aborted"
    /\ \A u \in failed :
          /\ u \in visited_urls
          /\ \A p \in DOMAIN files : files[p].from # u
    /\ pc = "done" =>
          /\ stack = <<>>
          /\ \A r \in RootFileUrls : gets[r] = 1
C3_Step ==
    /\ failed' # failed =>
          /\ stack' = stack /\ rootIdx' = rootIdx /\ pc' = pc
          /\ files' = files /\ dirs' = dirs
    /\ Len(stack') < Len(stack) => stack[Len(stack)].left = 0
C3_FetchFailureContained == []C3_State /\ [][C3_Step]_vars

\* the GET of the first reference of the root page failed, the second
\* reference and every root file were requested all the same
C3_Witness ==
    /\ pc = "done"
    /\ failed \cap LinkTargets # {}
    /\ source_url \in parsed
    /\ Cardinality(visited_urls \cap LinkTargets) >= 2
    /\ \A r \in RootFileUrls : gets[r] = 1

\* the path the claim gives for a URL path
ClaimedPath(path) ==
    IF path = <<>> THEN <<IndexHtml>>
    ELSE IF path[Len(path)] = Slash THEN Components(path) \o <<IndexHtml>>
    ELSE Components(path)

\* C12: every file save_file wrote is at the path given by the URL's path
\* alone: index.html for an empty path, <dir>/index.html for a path ending
\* in '/', the path itself otherwise; URLs with equal paths, and the root URL
\* and /index.html, are written to one file.
C12_PathMapping ==
    /\ \A sv \in saved : sv[2] = ClaimedPath(sv[1].path) /\ sv[2] \in DOMAIN files
    /\ \A p \in DOMAIN files : <<files[p].from, p>> \in saved
    /\ \A x \in saved, y \in saved :
          \/ x[1].path = y[1].path
          \/ (x[1].path \in {<<>>, <<Slash>>} /\ y[1].path = <<Slash, IndexHtml>>)
          => x[2] = y[2]

\* the root URL and /index.html were both saved, to the same file, and /a/
\* was saved to a/index.html
C12_Witness ==
    /\ pc = "done"
    /\ <<source_url, <<IndexHtml>>>> \in saved
    /\ <<Url("http", "src", <<Slash, IndexHtml>>), <<IndexHtml>>>> \in saved
    /\ <<Url("http", "src", <<Slash, Nm("a", ""), Slash>>), <<Nm("a", ""), IndexHtml>>>> \in saved

\* the URLs of the source's origin reachable from the seeds
ReachableSameOrigin == Seeds \cup { t \in linked : Origin(t) = Origin(source_url) }

\* C14 (as stated): scrape_site returns, and when it has, a GET was issued
\* for every URL of the source's origin that is a seed or is referenced by a
\* page that was fetched with success.
C14_CompleteAndTerminates ==
    /\ <>(pc = "done")
    /\ [](pc = "done" => \A u \in ReachableSameOrigin : gets[u] >= 1)

\* the URLs whose GET returned a 2xx response
Fetched2xx == visited_urls \ failed

\* C20 (as stated): when the crawl is over, every URL whose GET returned a
\* 2xx response has a file in the mirror at the path save_file derives for
\* it, and every HTML response among them was parsed for its references;
\* a site that serves both /a and /a/ included.
C20_EveryFetchPersisted ==
    pc = "done" =>
        \A u \in Fetched2xx :
            /\ FilePath(u) \in DOMAIN files
            /\ u \in pages => u \in parsed

(***************************************************************************)
(* convert_images.  The mirror holds files directly below public_dir; a    *)
(* path is its one component.  convert_images is invoked twice in a row.   *)
(***************************************************************************)
\* process_image: webp, then avif, then jxl
ConvOrder == <<"webp", "avif", "jxl">>
ToolOf(fmt) == CASE fmt = "webp" -> "cwebp" [] fmt = "avif" -> "avifenc" [] fmt = "jxl" -> "cjxl"
ToolSets == { {"cwebp", "avifenc", "cjxl"}, {"avifenc", "cjxl"},
              {"cwebp", "cjxl"}, {"cwebp", "avifenc"} }

\* the except clauses of convert_to_webp / convert_to_avif / convert_to_jxl
ConvertCatches(fmt, exc) ==
    \/ exc = "CalledProcessError"
    \/ fmt = "jxl" /\ exc = "FileNotFoundError"

\* str.lower of a file extension
Lower(ext) == CASE ext = "JPG" -> "jpg" [] OTHER -> ext
\* file.lower().endswith(('.jpg', '.jpeg', '.png', '.gif'))
IsRaster(path) == Lower(path[Len(path)].ext) \in {"jpg", "jpeg", "png", "gif"}
\* f"{os.path.splitext(img_path)[0]}.{ext}"
OutputPath(path, fmt) == [path EXCEPT ![Len(path)].ext = fmt]

\* `os.path.exists(output_path) and not self.force_reconvert`
AlreadyConvertedNever(out, fs, force) == FALSE
AlreadyConverted(out, fs, force) == out \in DOMAIN fs /\ ~force

\* the filter of the os.walk loop that fills image_paths
Planned(fs, force) ==
    { q \in DOMAIN fs :
        /\ IsRaster(q)
        /\ (force \/ ~ \A i \in 1..Len(ConvOrder) : OutputPath(q, ConvOrder[i]) \in DOMAIN fs) }

\* files the crawler may have left in the mirror
CandidateFiles ==
    { <<Nm("a", "jpg")>>, <<Nm("a", "png")>>, <<Nm("b", "JPG")>>, <<Nm("a", "webp")>> }
Fetched(path) == [from |-> Url("http", "src", <<Slash>> \o path)]
Converted(path, run) == [from |-> path, run |-> run]

CrawlOver ==
    /\ pc = "done" /\ cur = <<>> /\ stack = <<>> /\ rootIdx = Len(root_files) + 1
    /\ visited_urls = {} /\ file_urls = {} /\ gets = [u \in Urls |-> 0]
    /\ failed = {} /\ pages = {} /\ parsed = {} /\ linked = {} /\ saved = {}
    /\ site = {}

InitTranscode ==
    /\ CrawlOver /\ RewriteIdle /\ dirs = {}
    /\ \E S \in SUBSET CandidateFiles :
          /\ Cardinality({ q \in S : IsRaster(q) }) <= MaxImages
          /\ files = [q \in S |-> Fetched(q)]
    /\ force_reconvert \in BOOLEAN
    /\ tools \in ToolSets
    /\ tpc = "idle" /\ runNo = 0 /\ image_paths = {} /\ job = <<>>
    /\ convlog = {} /\ endOfRun1 = <<>>

Running == { q \in DOMAIN job : job[q] \in 1..Len(ConvOrder) }
FinishedAny == TRUE
Finished == \A q \in DOMAIN job : job[q] > Len(ConvOrder)
Returned == Len(ConvOrder) + 1
Raised == Len(ConvOrder) + 2

\* convert_images is called: the walk plans the images, the pool gets a future each
ConvertImages ==
    /\ tpc \in {"idle", "joined", "raised"} /\ runNo \in {0, 1}
    /\ tpc' = "run" /\ runNo' = runNo + 1
    /\ image_paths' = Planned(files, force_reconvert)
    /\ job' = [q \in Planned(files, force_reconvert) |-> 0]
    /\ endOfRun1' = IF runNo = 1 THEN files ELSE endOfRun1
    /\ UNCHANGED <<crawlVars, files, force_reconvert, tools, convlog, rewriteVars>>

\* a pool thread takes a queued future
StartImage ==
    \E q \in DOMAIN job :
        /\ tpc = "run" /\ job[q] = 0
        /\ Cardinality(Running) < MaxWorkers
        /\ job' = [job EXCEPT ![q] = 1]
        /\ UNCHANGED <<crawlVars, files, tpc, runNo, force_reconvert, tools,
                       image_paths, convlog, endOfRun1, rewriteVars>>

Log(q, outcome) == convlog' = convlog \cup {<<runNo, q, ConvOrder[job[q]], outcome>>}

\* convert_to_*: the output exists and force_reconvert is off
ConvertSkip ==
    \E q \in DOMAIN job :
        /\ tpc = "run" /\ job[q] \in 1..Len(ConvOrder)
        /\ AlreadyConverted(OutputPath(q, ConvOrder[job[q]]), files, force_reconvert)
        /\ Log(q, "skipped")
        /\ job' = [job EXCEPT ![q] = @ + 1]
        /\ UNCHANGED <<crawlVars, files, tpc, runNo, force_reconvert, tools,
                       image_paths, endOfRun1, rewriteVars>>

\* convert_to_*: the converter runs and writes the output
ConvertOk ==
    \E q \in DOMAIN job :
        /\ tpc = "run" /\ job[q] \in 1..Len(ConvOrder)
        /\ ~AlreadyConverted(OutputPath(q, ConvOrder[job[q]]), files, force_reconvert)
        /\ ToolOf(ConvOrder[job[q]]) \in tools
        /\ files' = (OutputPath(q, ConvOrder[job[q]]) :> Converted(q, runNo)) @@ files
        /\ Log(q, "converted")
        /\ job' = [job EXCEPT ![q] = @ + 1]
        /\ UNCHANGED <<crawlVars, tpc, runNo, force_reconvert, tools,
                       image_paths, endOfRun1, rewriteVars>>

\* convert_to_*: the converter exits with an error (check=True raises)
ConvertFails ==
    \E q \in DOMAIN job :
        /\ tpc = "run" /\ job[q] \in 1..Len(ConvOrder)
        /\ ~AlreadyConverted(OutputPath(q, ConvOrder[job[q]]), files, force_reconvert)
        /\ ToolOf(ConvOrder[job[q]]) \in tools
        /\ Cardinality({ e \in convlog : e[4] = "CalledProcessError" }) < MaxConvFail
        /\ Log(q, "CalledProcessError")
        /\ job' = [job EXCEPT ![q] =
                      IF ConvertCatches(ConvOrder[job[q]], "CalledProcessError")
                      THEN @ + 1 ELSE Raised]
        /\ UNCHANGED <<crawlVars, files, tpc, runNo, force_reconvert, tools,
                       image_paths, endOfRun1, rewriteVars>>

\* convert_to_*: the converter executable is not installed
ConvertToolMissing ==
    \E q \in DOMAIN job :
        /\ tpc = "run" /\ job[q] \in 1..Len(ConvOrder)
        /\ ~AlreadyConverted(OutputPath(q, ConvOrder[job[q]]), files, force_reconvert)
        /\ ToolOf(ConvOrder[job[q]]) \notin tools
        /\ Log(q, "FileNotFoundError")
        /\ job' = [job EXCEPT ![q] =
                      IF ConvertCatches(ConvOrder[job[q]], "FileNotFoundError")
                      THEN @ + 1 ELSE Raised]
        /\ UNCHANGED <<crawlVars, files, tpc, runNo, force_reconvert, tools,
                       image_paths, endOfRun1, rewriteVars>>

\* the as_completed loop and the exit of the `with` block: every future has
\* ended; future.result() re-raises what a process_image raised
JoinPool ==
    /\ tpc = "run" /\ Finished
    /\ tpc' = IF \E q \in DOMAIN job : job[q] = Raised THEN "raised" ELSE "joined"
    /\ UNCHANGED <<crawlVars, files, runNo, force_reconvert, tools, image_paths,
                   job, convlog, endOfRun1, rewriteVars>>

NextTranscode ==
    \/ ConvertImages \/ StartImage \/ ConvertSkip \/ ConvertOk \/ ConvertFails
    \/ ConvertToolMissing \/ JoinPool

SpecTranscode == InitTranscode /\ [][NextTranscode]_vars

(***************************************************************************)
(* Claims about convert_images (checked under SpecTranscode).              *)
(***************************************************************************)
\* outcomes of a convert_to_* call in which the converter executable ran
ToolRan == {"converted", "CalledProcessError"}
RunLog(r) == { e \in convlog : e[1] = r }
AllOutputsPresent(fs) ==
    \A q \in DOMAIN fs : IsRaster(q) =>
        \A i \in 1..Len(ConvOrder) : OutputPath(q, ConvOrder[i]) \in DOMAIN fs
UntouchedSinceRun1 ==
    \A q \in DOMAIN endOfRun1 : q \in DOMAIN files /\ files[q] = endOfRun1[q]

\* C4 (as stated): whatever the first run did, a second run without
\* force_reconvert runs no converter and leaves the first run's files alone.
C4_SecondRunIdle ==
    (runNo = 2 /\ ~force_reconvert) =>
        /\ \A e \in RunLog(2) : e[4] \notin ToolRan
        /\ UntouchedSinceRun1

\* C4 (amended): a second run without force_reconvert runs a converter only
\* for an output that was missing when the first run ended, hence none at
\* all (and plans no image) when the first run left every output in place;
\* every file present when the first run ended keeps its content.
C4_SecondRunOnlyMissing ==
    (runNo = 2 /\ ~force_reconvert) =>
        /\ \A e \in RunLog(2) :
              e[4] \in ToolRan => OutputPath(e[2], e[3]) \notin DOMAIN endOfRun1
        /\ AllOutputsPresent(endOfRun1) => image_paths = {} /\ RunLog(2) = {}
        /\ UntouchedSinceRun1

\* the first run converted something and left every output in place; the
\* second run is over and ran nothing
C4_Witness ==
    /\ runNo = 2 /\ tpc = "joined" /\ ~force_reconvert
    /\ \E e \in RunLog(1) : e[4] = "converted"
    /\ \E q \in DOMAIN endOfRun1 : IsRaster(q)
    /\ AllOutputsPresent(endOfRun1)
    /\ RunLog(2) = {}

\* C5 (as stated): a conversion that fails, or whose tool is missing, aborts
\* neither its process_image nor convert_images, and when the pool is done
\* every format of every planned image has been attempted.
C5_PerFormatIndependence ==
    /\ tpc # "raised"
    /\ \A q \in DOMAIN job : job[q] # Raised
    /\ (tpc \in {"run", "joined"} /\ Finished) =>
          \A q \in image_paths : \A i \in 1..Len(ConvOrder) :
              \E e \in RunLog(runNo) : e[2] = q /\ e[3] = ConvOrder[i]

\* C15 (as stated): when a run with force_reconvert set is over, every raster
\* image of the mirror was planned and for every target format of each one
\* the converter was invoked, whatever outputs existed.
C15_ForceReconvert ==
    (force_reconvert /\ tpc \in {"joined", "raised"}) =>
        /\ image_paths = { q \in DOMAIN files : IsRaster(q) }
        /\ \A q \in image_paths : \A i \in 1..Len(ConvOrder) :
              \E e \in RunLog(runNo) :
                  e[2] = q /\ e[3] = ConvOrder[i] /\ e[4] # "skipped"

\* the output paths of the worker that runs process_image(q)
WorkerOutputs(q) == { OutputPath(q, ConvOrder[i]) : i \in 1..Len(ConvOrder) }

\* C16 (as stated): two workers that run at the same time have different
\* images and disjoint sets of output paths.
C16_WorkerIsolation ==
    \A q1 \in Running, q2 \in Running :
        q1 # q2 => WorkerOutputs(q1) \cap WorkerOutputs(q2) = {}

\* C18 (as stated): no step of convert_images overwrites or changes a file
\* the crawler fetched and saved, whatever its name and whatever
\* force_reconvert is.
C18_OriginalsUntouched ==
    [][\A p \in DOMAIN files :
          files[p] = Fetched(p) => (p \in DOMAIN files' /\ files'[p] = files[p])]_vars

(***************************************************************************)
(* update_html_for_image_formats.                                          *)
(*                                                                         *)
(* A document is the sequence of its <img> elements, each with the part of *)
(* the tree the rewriter looks at, plus whether its bytes are already in   *)
(* the form str(BeautifulSoup(...)) prints.  Per <img>:                    *)
(*   ptag, pcls  tag of the parent element, and whether the parent itself  *)
(*               has class kg-gallery-image                                *)
(*   anc         whether an element above the parent has that class        *)
(*   pkids       the children of the parent: <source> elements and the     *)
(*               <img> (or, once wrapped, the <picture> made around it)    *)
(*   wrapped     the <img> sits in a <picture> made by img.wrap            *)
(*   pic         the children of that <picture>                            *)
(*   img         the attributes of the <img>                               *)
(***************************************************************************)
Source(type, srcset, sizes) ==
    [tag |-> "source", type |-> type, srcset |-> srcset, sizes |-> sizes]
ImgNode == [tag |-> "img", type |-> "", srcset |-> <<>>, sizes |-> ""]

\* formats of update_html_for_image_formats, in its order
formats == << <<"jxl", "image/jxl">>, <<"avif", "image/avif">>, <<"webp", "image/webp">> >>

RootRel(path) == Url("", "", path)
ImgA == RootRel(<<Slash, Nm("a", "jpg")>>)                        \* /a.jpg
ImgARel == RootRel(<<Nm("a", "jpg")>>)                            \* a.jpg
ImgScaled == RootRel(<<Slash, Nm("size", ""), Slash, Nm("a", "jpg")>>) \* /size/a.jpg
ImgExt == Url("http", "ext", <<Slash, Nm("a", "jpg")>>)           \* http://ext/a.jpg
PageA == RootRel(<<Slash, Nm("about", "")>>)                      \* /about
OldSource ==
    Source("image/webp", << <<RootRel(<<Slash, Nm("old", "webp")>>), "800w">> >>, "")

\* re.sub(r'\.[^.]+$', f'.{format_ext}', orig_src): the text from the last dot
\* on is replaced; a URL whose last segment has no dot loses the tail of its
\* dotted host instead, or stays as it is when it names no host
ReSubExt(url, fmt) ==
    IF url.path # <<>> /\ url.path[Len(url.path)].ext # ""
    THEN [url EXCEPT !.path[Len(url.path)].ext = fmt]
    ELSE IF url.netloc # "" THEN Url(url.scheme, "mangled", <<>>)
    ELSE url

\* url_to_local_path: [none |-> TRUE] stands for None
NoLocalPath == [none |-> TRUE, path |-> <<>>]
LocalPath(comps) == [none |-> FALSE, path |-> comps]
url_to_local_path(url) ==
    IF url.scheme = "" /\ (url.netloc # "" \/ (url.path # <<>> /\ Head(url.path) = Slash))
    THEN LocalPath((IF url.netloc # "" THEN <<Nm(url.netloc, "")>> ELSE <<>>)
                   \o Components(url.path))
    ELSE IF url.netloc # "" /\ url.netloc \notin {source_url.netloc, target_url.netloc}
    THEN NoLocalPath
    ELSE LocalPath(Components(LStrip(url.path)))

\* os.path.exists(local_path) below public_dir
MirrorExistsAlways(comps, fs, hs, ds) == TRUE
MirrorExists(comps, fs, hs, ds) ==
    comps = <<>> \/ comps \in DOMAIN fs \/ comps \in DOMAIN hs \/ comps \in ds

\* `if not src.startswith(('http://', 'https://', '//')): src = '/' + src.lstrip('/')`
NormalizeSrc(url) ==
    IF url.scheme # "" \/ url.netloc # "" THEN url
    ELSE RootRel(<<Slash>> \o LStrip(url.path))

\* `src = img.get('src') or img.get('data-src')`
SrcOf(img) == IF img.src # <<>> THEN img.src ELSE img.datasrc
\* `img.get('srcset') or img.get('data-srcset', '')`, split at ',' and blanks
SrcsetOf(img) == IF img.srcset # <<>> THEN img.srcset ELSE img.datasrcset

\* the inner loop: the srcset of one format
FormatSrcset(entries, fmt, fs, hs, ds) ==
    LET Keep(e) ==
            /\ Len(e) = 2
            /\ ~url_to_local_path(ReSubExt(e[1], fmt)).none
            /\ MirrorExists(url_to_local_path(ReSubExt(e[1], fmt)).path, fs, hs, ds)
        kept == SelectSeq(entries, Keep)
    IN  [i \in 1..Len(kept) |-> <<ReSubExt(kept[i][1], fmt), kept[i][2]>>]

\* the `sources` list: one <source> per format with a non-empty srcset
RECURSIVE NewSources(_, _, _, _, _, _)
NewSources(i, entries, sizes, fs, hs, ds) ==
    IF i > Len(formats) THEN <<>>
    ELSE LET srcset == FormatSrcset(entries, formats[i][1], fs, hs, ds)
             rest == NewSources(i + 1, entries, sizes, fs, hs, ds)
         IN  IF srcset # <<>>
             THEN <<Source(formats[i][2], srcset, sizes)>> \o rest
             ELSE rest

\* `for source in reversed(sources): picture.insert(0, source)`
RECURSIVE InsertSourcesForward(_, _)
InsertSourcesForward(sources, kids) ==
    IF sources = <<>> THEN kids
    ELSE InsertSourcesForward(Tail(sources), <<Head(sources)>> \o kids)
RECURSIVE InsertSources(_, _)
InsertSources(sources, kids) ==
    IF sources = <<>> THEN kids
    ELSE InsertSources(SubSeq(sources, 1, Len(sources) - 1),
                       <<sources[Len(sources)]>> \o kids)

\* `parent.find_parent(class_='kg-gallery-image') is not None`: the elements
\* above the parent of the <img>, the parent itself excluded
is_gallery_image(c) == IF c.wrapped THEN c.pcls \/ c.anc ELSE c.anc

IsSource(node) == node.tag = "source"
NotSource(node) == node.tag # "source"

\* the body of `for img in soup.find_all('img')` for one <img>
Qualifies(c) == SrcOf(c.img) # <<>>
SourcesFor(c, fs, hs, ds) ==
    IF Qualifies(c)
    THEN NewSources(1, SrcsetOf(c.img), c.img.sizes, fs, hs, ds)
    ELSE <<>>
RewriteImg(c, fs, hs, ds) ==
    IF ~Qualifies(c) THEN c
    ELSE
    LET inParent == ~c.wrapped /\ c.ptag = "picture"   \* picture = parent
        before == IF c.wrapped THEN c.pic
                  ELSE IF inParent THEN c.pkids
                  ELSE <<ImgNode>>                      \* img.wrap(picture)
        kept == IF is_gallery_image(c) THEN before ELSE SelectSeq(before, NotSource)
        after == InsertSources(SourcesFor(c, fs, hs, ds), kept)
    IN  [c EXCEPT !.wrapped = ~inParent,
                  !.pic = IF inParent THEN c.pic ELSE after,
                  !.pkids = IF inParent THEN after ELSE c.pkids,
                  !.img.loading = "lazy"]

\* BeautifulSoup(content, 'html.parser') ... str(soup): the tree is printed in
\* the printer's own form, whatever the form of the bytes that were read
RewriteDoc(doc, fs, hs, ds) ==
    [canon |-> TRUE,
     imgs |-> [i \in 1..Len(doc.imgs) |-> RewriteImg(doc.imgs[i], fs, hs, ds)]]

(***************************************************************************)
(* The mirrors the rewriter is run on.                                     *)
(***************************************************************************)
Img(src, datasrc, srcset, datasrcset, sizes) ==
    [src |-> src, datasrc |-> datasrc, srcset |-> srcset,
     datasrcset |-> datasrcset, sizes |-> sizes, loading |-> ""]
ImgShapes ==
    { Img(<<>>, <<>>, << <<ImgA, "800w">> >>, <<>>, ""),
      Img(<<ImgA>>, <<>>, <<>>, <<>>, ""),
      Img(<<ImgARel>>, <<>>, << <<ImgA, "800w">>, <<ImgScaled, "600w">> >>, <<>>, "100vw"),
      Img(<<>>, <<ImgA>>, <<>>, << <<ImgA>>, <<ImgExt, "800w">>, <<ImgA, "800w">>, <<PageA, "600w">> >>, "") }
Placements ==
    { [ptag |-> "div", pcls |-> g, anc |-> FALSE, pkids |-> <<ImgNode>>] : g \in BOOLEAN }
    \cup
    { [ptag |-> "picture", pcls |-> ga[1], anc |-> ga[2], pkids |-> <<OldSource, ImgNode>>] :
        ga \in { <<FALSE, FALSE>>, <<FALSE, TRUE>>, <<TRUE, FALSE>> } }
Contexts ==
    { [ptag |-> pl.ptag, pcls |-> pl.pcls, anc |-> pl.anc, pkids |-> pl.pkids,
       wrapped |-> FALSE, pic |-> <<>>, img |-> sh] : pl \in Placements, sh \in ImgShapes }
PageDocs ==
    { [canon |-> k, imgs |-> s] :
        k \in BOOLEAN, s \in UNION { [1..n -> Contexts] : n \in 0..MaxImgs } }
TextDocs == { [canon |-> k, imgs |-> <<>>] : k \in BOOLEAN }

IndexPath == <<IndexHtml>>
AboutPath == <<Nm("about", ""), IndexHtml>>
AltFiles == { <<Nm("a", "webp")>>, <<Nm("a", "avif")>>, <<Nm("a", "jxl")>> }

InitRewrite ==
    /\ CrawlOver /\ dirs = DirsOf(AboutPath)
    /\ \E S \in SUBSET AltFiles :
          files = [q \in S \cup {<<Nm("a", "jpg")>>} |-> Fetched(q)]
    /\ \E d \in PageDocs, t \in TextDocs :
          html = (IndexPath :> d) @@ (AboutPath :> t)
    /\ fetched = html
    /\ tpc = "joined" /\ runNo = 1 /\ force_reconvert = FALSE
    /\ tools = {} /\ image_paths = {} /\ job = <<>> /\ convlog = {} /\ endOfRun1 = <<>>
    /\ rpc = "idle" /\ todo = <<>> /\ written = {} /\ emitted = <<>>
    /\ rewriteNo = 0 /\ afterFirst = <<>> /\ upc = "idle"

\* `if file.endswith('.html')`
IsHtmlName(path) == path[Len(path)].ext = "html"

\* os.walk(self.public_dir): the files of a directory before those below it
RECURSIVE WalkOrder(_)
WalkOrder(S) ==
    IF S = {} THEN <<>>
    ELSE LET first == CHOOSE y \in S : \A z \in S : Len(y) <= Len(z)
         IN  <<first>> \o WalkOrder(S \ {first})

\* update_html_for_image_formats is called
UpdateHtml ==
    /\ rpc = "idle"
    /\ rpc' = "walk" /\ rewriteNo' = 1
    /\ todo' = WalkOrder({ f \in DOMAIN html : IsHtmlName(f) })
    /\ UNCHANGED <<crawlVars, files, transVars, html, fetched, written, emitted, afterFirst,
                   upc>>

\* one .html file: read, parse, the loop over its <img> elements, write
RewriteFile ==
    /\ rpc = "walk" /\ todo # <<>>
    /\ LET f == Head(todo) IN
          /\ html' = [html EXCEPT ![f] = RewriteDoc(html[f], files, html, dirs)]
          /\ emitted' = (f :> [i \in 1..Len(html[f].imgs) |->
                                  SourcesFor(html[f].imgs[i], files, html, dirs)])
                        @@ emitted
          /\ written' = written \cup {f}
    /\ todo' = Tail(todo)
    /\ UNCHANGED <<crawlVars, files, transVars, rpc, fetched, rewriteNo, afterFirst, upc>>

\* the walk is over
RewriteDone ==
    /\ rpc = "walk" /\ todo = <<>>
    /\ rpc' = "done"
    /\ UNCHANGED <<crawlVars, files, transVars, html, fetched, todo, written, emitted,
                   rewriteNo, afterFirst, upc>>

NextRewrite == UpdateHtml \/ RewriteFile \/ RewriteDone

SpecRewrite == InitRewrite /\ [][NextRewrite]_vars

\* update_html_for_image_formats is called again on the mirror it has rewritten
UpdateHtmlAgain ==
    /\ rpc = "done" /\ rewriteNo = 1
    /\ rpc' = "walk" /\ rewriteNo' = 2
    /\ afterFirst' = html
    /\ todo' = WalkOrder({ f \in DOMAIN html : IsHtmlName(f) })
    /\ UNCHANGED <<crawlVars, files, transVars, html, fetched, written, emitted, upc>>

NextRewriteTwice == NextRewrite \/ UpdateHtmlAgain

SpecRewriteTwice == InitRewrite /\ [][NextRewriteTwice]_vars

(***************************************************************************)
(* run(): convert_images, update_html_for_image_formats and                *)
(* replace_urls_in_files, one after the other, on the mirror of a crawl.   *)
(***************************************************************************)
\* content.replace(self.source_url, self.target_url), per URL of a document
ReplaceUrl(url) ==
    IF url.scheme = source_url.scheme /\ url.netloc = source_url.netloc
    THEN [url EXCEPT !.scheme = target_url.scheme, !.netloc = target_url.netloc]
    ELSE url
ReplaceEntries(entries) ==
    [i \in 1..Len(entries) |-> [entries[i] EXCEPT ![1] = ReplaceUrl(@)]]
ReplaceNodes(nodes) ==
    [i \in 1..Len(nodes) |-> [nodes[i] EXCEPT !.srcset = ReplaceEntries(@)]]
ReplaceCtx(c) ==
    [c EXCEPT !.pkids = ReplaceNodes(@), !.pic = ReplaceNodes(@),
              !.img.src = [i \in 1..Len(@) |-> ReplaceUrl(@[i])],
              !.img.datasrc = [i \in 1..Len(@) |-> ReplaceUrl(@[i])],
              !.img.srcset = ReplaceEntries(@),
              !.img.datasrcset = ReplaceEntries(@)]
ReplaceDoc(doc) ==
    [doc EXCEPT !.imgs = [i \in 1..Len(@) |-> ReplaceCtx(@[i])]]

\* replace_urls_in_files: every .html file is read, replaced and written
ReplaceUrlsInFiles ==
    /\ rpc = "done" /\ upc = "idle"
    /\ upc' = "done"
    /\ html' = [f \in DOMAIN html |-> IF IsHtmlName(f) THEN ReplaceDoc(html[f]) ELSE html[f]]
    /\ UNCHANGED <<crawlVars, files, transVars, rpc, fetched, todo, written, emitted,
                   rewriteNo, afterFirst>>

\* the pages of the mirror run() is followed on
ImgAbs == Url("http", "src", <<Slash, Nm("a", "jpg")>>)            \* http://src/a.jpg
ImgProto == Url("", "ext", <<Slash, Nm("a", "jpg")>>)              \* //ext/a.jpg
\* a file the site serves at /ext/a.webp
ExtDirFiles == { <<Nm("ext", ""), Nm("a", "webp")>> }
RunDocs ==
    { [canon |-> TRUE, imgs |-> <<>>] }
    \cup
    { [canon |-> TRUE,
       imgs |-> << [ptag |-> "div", pcls |-> FALSE, anc |-> FALSE, pkids |-> <<ImgNode>>,
                    wrapped |-> FALSE, pic |-> <<>>,
                    img |-> Img(<<u>>, <<>>, << <<u, "800w">> >>, <<>>, "")] >> ] :
        u \in {ImgA, ImgAbs, ImgExt, ImgProto} }

InitRun ==
    /\ CrawlOver
    /\ \E S \in SUBSET CandidateFiles, E \in SUBSET ExtDirFiles :
          /\ Cardinality({ q \in S : IsRaster(q) }) <= MaxImages
          /\ files = [q \in S \cup E |-> Fetched(q)]
          /\ dirs = DirsOf(AboutPath) \cup UNION { DirsOf(q) : q \in E }
    /\ \E d \in RunDocs :
          html = (IndexPath :> d) @@ (AboutPath :> [canon |-> TRUE, imgs |-> <<>>])
    /\ fetched = html
    /\ force_reconvert \in BOOLEAN
    /\ tools \in ToolSets
    /\ tpc = "idle" /\ runNo = 0 /\ image_paths = {} /\ job = <<>>
    /\ convlog = {} /\ endOfRun1 = <<>>
    /\ rpc = "idle" /\ todo = <<>> /\ written = {} /\ emitted = <<>>
    /\ rewriteNo = 0 /\ afterFirst = <<>> /\ upc = "idle"

\* self.convert_images()
RunConvertImages == runNo = 0 /\ ConvertImages
\* self.update_html_for_image_formats(): convert_images has returned
RunUpdateHtml == tpc = "joined" /\ UpdateHtml

NextRun ==
    \/ RunConvertImages \/ StartImage \/ ConvertSkip \/ ConvertOk \/ ConvertFails
    \/ ConvertToolMissing \/ JoinPool
    \/ RunUpdateHtml \/ RewriteFile \/ RewriteDone
    \/ ReplaceUrlsInFiles

SpecRun == InitRun /\ [][NextRun]_vars

(***************************************************************************)
(* Claims about update_html_for_image_formats (checked under SpecRewrite). *)
(***************************************************************************)
Range(seq) == { seq[i] : i \in 1..Len(seq) }
\* the children of the <picture> an <img> sits in after it was processed
PictureKids(c) == IF c.wrapped THEN c.pic ELSE c.pkids
\* the <source> siblings of an <img>
SourceSiblings(c) == SelectSeq(PictureKids(c), IsSource)
\* the processed <img> elements: file, index
Processed ==
    { <<f, i>> \in written \X (1..MaxImgs) :
        i <= Len(fetched[f].imgs) /\ Qualifies(fetched[f].imgs[i]) }
\* the paths that exist in the mirror: public_dir, the files, the directories
MirrorPaths == {<<>>} \cup DOMAIN files \cup DOMAIN html \cup dirs
SiblingExists(url, ext) ==
    /\ ~url_to_local_path(ReSubExt(url, ext)).none
    /\ url_to_local_path(ReSubExt(url, ext)).path \in MirrorPaths

PriorityTypes == <<"image/jxl", "image/avif", "image/webp">>
ExtOfType(type) ==
    CASE type = "image/jxl" -> "jxl" [] type = "image/avif" -> "avif" [] type = "image/webp" -> "webp"
\* some (url, descriptor) pair of the srcset has a sibling of that format
HasSibling(img, type) ==
    \E e \in Range(SrcsetOf(img)) : Len(e) = 2 /\ SiblingExists(e[1], ExtOfType(type))
TypesOf(seq) == [k \in 1..Len(seq) |-> seq[k].type]

SrcSiblingTypes(img) ==
    { t \in Range(PriorityTypes) : SiblingExists(NormalizeSrc(SrcOf(img)[1]), ExtOfType(t)) }

\* C8 (as stated): an <img> with a resolvable src, with or without srcset,
\* for which exactly one alternate-format sibling of src exists gets exactly
\* one <source>, of that format, before the <img>.
C8_FormatFallback ==
    \A p \in Processed :
        LET img == fetched[p[1]].imgs[p[2]].img
            kids == PictureKids(html[p[1]].imgs[p[2]])
            em == emitted[p[1]][p[2]]
        IN  Cardinality(SrcSiblingTypes(img)) = 1 =>
                /\ Len(em) = 1
                /\ em[1].type \in SrcSiblingTypes(img)
                /\ kids[1] = em[1]

\* C9 (as stated): when the rewriter is done, a file without a qualifying
\* <img> has the bytes the crawler saved.
C9_NoSpuriousMutation ==
    rpc = "done" =>
        \A f \in DOMAIN html :
            (\A i \in 1..Len(fetched[f].imgs) : ~Qualifies(fetched[f].imgs[i]))
                => html[f] = fetched[f]

\* the <img> is inside an element with class kg-gallery-image
InGallery(c) == c.pcls \/ c.anc

\* C10 (as stated): for a processed <img> inside an element with class
\* kg-gallery-image every <source> sibling it had is still a child of its
\* <picture>; for one outside a gallery none of them is, and the <source>
\* children of its <picture> are exactly the created ones.
C10_GalleryPreservation ==
    \A p \in Processed :
        LET old == SourceSiblings(fetched[p[1]].imgs[p[2]])
            new == SourceSiblings(html[p[1]].imgs[p[2]])
        IN  IF InGallery(fetched[p[1]].imgs[p[2]])
            THEN Range(old) \subseteq Range(new)
            ELSE /\ Range(old) \cap Range(new) = {}
                 /\ new = emitted[p[1]][p[2]]

(***************************************************************************)
(* Claims about a second run of the rewriter (checked under                *)
(* SpecRewriteTwice).                                                      *)
(***************************************************************************)
\* C11 (as stated): when the second invocation of the rewriter is over, every
\* document is what the first invocation left: same <picture> nesting, same
\* <source> elements in the same order, same attributes.
C11_RewriteIdempotent ==
    (rewriteNo = 2 /\ rpc = "done") => html = afterFirst

(***************************************************************************)
(* Claims relating the crawler's paths to url_to_local_path (checked under *)
(* SpecPaths).                                                             *)
(***************************************************************************)
\* C13 (as stated): url_to_local_path resolves every URL save_file saved,
\* the root URL and the URLs ending in '/' included, to the path of the file
\* save_file wrote for it.
C13_PathRoundTrip ==
    \A sv \in saved :
        /\ ~url_to_local_path(sv[1]).none
        /\ url_to_local_path(sv[1]).path = sv[2]

(***************************************************************************)
(* Claims about the order of the stages of run() (checked under SpecRun).  *)
(***************************************************************************)
HtmlFiles == { f \in DOMAIN html : IsHtmlName(f) }

\* C17: while the rewriter walks, and after, convert_images has returned and
\* every process_image has ended; no step of the rewriter or of
\* replace_urls_in_files is taken while a worker runs or is queued; and
\* replace_urls_in_files has started only when the rewriter has written every
\* .html file.
C17_State ==
    /\ rpc # "idle" =>
          /\ tpc = "joined" /\ Finished /\ Running = {}
          /\ \A q \in DOMAIN job : job[q] = Returned
    /\ upc # "idle" => rpc = "done" /\ todo = <<>> /\ written = HtmlFiles
C17_Step ==
    (html' # html \/ rpc' # rpc \/ upc' # upc) =>
        /\ tpc = "joined" /\ \A q \in DOMAIN job : job[q] = Returned
        /\ UNCHANGED <<files, transVars>>
C17_StageBarrier == []C17_State /\ [][C17_Step]_vars

\* two images were converted by two workers, the rewriter created a <source>
\* from an output of the conversion, and replace_urls_in_files has run
C17_Witness ==
    /\ upc = "done"
    /\ Cardinality(image_paths) = 2
    /\ \E e \in convlog : e[4] = "converted"
    /\ \E i \in 1..Len(emitted[IndexPath]) : emitted[IndexPath][i] # <<>>
    /\ written = HtmlFiles

\* a URL of a host that is neither the source's nor the target's
ThirdParty(url) == url.netloc # "" /\ url.netloc \notin {source_url.netloc, target_url.netloc}
\* C19 (as stated): for the pages the rewriter has processed,
\* url_to_local_path gave no local path for a candidate of a third-party
\* host, written with a scheme or as //host/..., and no such URL is in the
\* srcset of a <source> the rewriter created.
C19_ThirdPartyNoLocalFile ==
    /\ \A f \in written : \A i \in 1..Len(fetched[f].imgs) :
          \A e \in Range(SrcsetOf(fetched[f].imgs[i].img)) : \A k \in 1..Len(formats) :
              ThirdParty(ReSubExt(e[1], formats[k][1]))
                  => url_to_local_path(ReSubExt(e[1], formats[k][1])).none
    /\ \A f \in written : \A i \in 1..Len(emitted[f]) :
          \A s \in Range(emitted[f][i]) : \A e \in Range(s.srcset) : ~ThirdParty(e[1])

====
